---- MODULE Spec2Model ----
(***************************************************************************)
(* Conversion-job lifecycle of the backend: the job record store           *)
(* (MockStorage / DatabaseStorage behind IStorage), the upload routes that *)
(* create jobs and schedule their deferred tasks, the timer callbacks that *)
(* finish them, and the read / download routes.                            *)
(*                                                                         *)
(* Time is in milliseconds.  The event loop is modelled as a discrete      *)
(* event simulation: a timer fires exactly when it is due, and the clock   *)
(* advances from one timer expiry to the next.  A route handler whose      *)
(* awaits all resolve on the store runs as one step; the timer callback is *)
(* split at its real suspension points (the inner setTimeout, and the      *)
(* rejected store write that enters the catch branch).                     *)
(***************************************************************************)
EXTENDS Integers, Sequences, FiniteSets, TLC

\* ---------------------------------------------------------------- bounds
\* Conversions (uploaded files) accepted over a run.
MaxJobs == 1
\* Conversions accepted over a run of the lifecycle specification.
LifeJobs == 2
\* Jobs whose storage writes may reject over a run.
MaxFaulty == 1
\* Files accepted over a run of the batch specification.
BatchFiles == 3
\* Conversions accepted over a run of the download specification.
DownloadJobs == 2
\* Files accepted over a run of the batch download specification.
BatchDownloadFiles == 2
\* Conversions accepted over a run of the store specification.
StoreJobs == 2
\* Files accepted over a run of the settings specification.
SettingsJobs == 2

\* ------------------------------------------------------ program constants
InitialDelayMs == 100
BatchStaggerMs == 100
BatchStrideMs == 500
HighMs == 3000
MediumMs == 2000
LowMs == 1000
MaxBatchFiles == 10

\* JavaScript's null for a timestamp column and for a text column.
NullTime == -1
NullUrl == <<>>
\* An absent (undefined) or empty form field: both are falsy.
Undefined == ""

Qualities == {"high", "medium", "low", Undefined}
\* The raw `settings` form field: absent, a JSON object, or not JSON at all.
SettingsInputs == {Undefined, "{\"dpi\":300}", "{dpi"}
FromFormats == {Undefined, "docx"}
ToFormats == {Undefined, "pdf"}
Backends == {"mock", "database"}
\* How a storage call on the database ends: it resolves, it rejects before
\* its write reached the table, or it rejects after the write (the
\* re-fetch SELECT that follows the write failed).
StoreOutcomes == {"ok", "rejectBefore", "rejectAfter"}

VARIABLES
  backend,      \* which IStorage implementation `storage` is bound to
  conversions,  \* the job store: entries in insertion order
  timers,       \* pending deferred tasks (setTimeout closures)
  now,          \* the clock, ms
  uuids,        \* number of randomUUID() values drawn so far
  files,        \* number of files multer has stored for accepted uploads
  disk,         \* file paths present under uploads/
  response,     \* what the last step answered its caller (NoResponse: no request)
  uncaught,     \* job ids whose deferred task ended in an unhandled rejection
  faulted,      \* job ids for which some storage call rejected
  nodeEnv,      \* process.env.NODE_ENV
  session,      \* per client: req.session.adminAuthenticated
  userApiKeys,  \* table user_api_keys, rows in insertion order
  apiPayments,  \* table api_payments, rows in insertion order
  inflight,     \* requests suspended at an await, with what they have read
  accepted      \* per key id: how many POST /convert requests were answered success

\* The state of the admin gate and of the API-key routes.
apiVars == <<nodeEnv, session, userApiKeys, apiPayments, inflight, accepted>>

vars == <<backend, conversions, timers, now, uuids, files, disk, response,
          uncaught, faulted, apiVars>>

\* ------------------------------------------------------------- helpers
Range(s) == {s[i] : i \in DOMAIN s}

\* The orderings of 1..n.
Orderings(n) ==
  {p \in [1..n -> 1..n] : \A i, j \in 1..n : i # j => p[i] # p[j]}

\* Mutant: any non-empty settings text counts as parsed.
ParseSettingsLenient(settings) ==
  IF settings = Undefined THEN {} ELSE {<<"dpi", 300>>}

\* JSON.parse inside try/catch, onto `let parsedSettings = {}`: the parsed
\* object (a set of key/value pairs), or {} when the field is absent or
\* the text does not parse.
ParseSettings(settings) ==
  IF settings = "{\"dpi\":300}" THEN {<<"dpi", 300>>} ELSE {}

\* Mutant: every quality takes the longest base delay.
BaseDelaySlowest(quality) == HighMs

\* `quality === "high" ? 3000 : quality === "medium" ? 2000 : 1000`
BaseDelay(quality) ==
  IF quality = "high" THEN HighMs
  ELSE IF quality = "medium" THEN MediumMs
  ELSE LowMs

\* Mutant: the stride shortens the delay of later members.
ProcessingTimeReversed(quality, index) == BaseDelay(quality) - index * BatchStrideMs

\* The delay of the inner setTimeout; a single submission is index 0 with
\* no stride term.
ProcessingTime(quality, index) == BaseDelay(quality) + index * BatchStrideMs

\* The delay of the outer setTimeout.
StartDelay(index) == InitialDelayMs + index * BatchStaggerMs

\* Mutant: the reference does not carry the id.
DownloadUrlShared(id) == <<"/api/download/", 0>>

\* `/api/download/${conversion.id}`
DownloadUrl(id) == <<"/api/download/", id>>

\* Mutant: { ...updates, ...existing }, the stored values win.
MergeKeepExisting(existing, updates) ==
  [k \in DOMAIN existing \cup DOMAIN updates |->
     IF k \in DOMAIN existing THEN existing[k] ELSE updates[k]]

\* { ...existing, ...updates }
Merge(existing, updates) ==
  [k \in DOMAIN existing \cup DOMAIN updates |->
     IF k \in DOMAIN updates THEN updates[k] ELSE existing[k]]

\* ----------------------------------------------------------- the store
\* The record createConversion stores for an InsertConversion.
NewConversion(insert, id, t) ==
  [id |-> id,
   fromFormat |-> insert.fromFormat,
   toFormat |-> insert.toFormat,
   originalFilename |-> insert.originalFilename,
   filePath |-> insert.filePath,
   fileSize |-> insert.fileSize,
   createdAt |-> t,
   completedAt |-> NullTime,
   metadata |-> insert.metadata,
   status |-> IF insert.status = Undefined THEN "pending" ELSE insert.status,
   downloadUrl |-> NullUrl]

\* A store entry is the record together with `key`, the key it is held
\* under: the Map key on MockStorage, the primary key on the database.
\* Row is the record a caller is handed.
Row(entry) == [k \in DOMAIN entry \ {"key"} |-> entry[k]]

Rows(entries) == [i \in DOMAIN entries |-> Row(entries[i])]

\* On the database the primary key is the id column itself.
Rekey(entry) ==
  IF backend = "mock" THEN entry ELSE [entry EXCEPT !.key = entry.id]

\* The stored records with id `id`: none or one.
getConversion(rows, id) == Rows(SelectSeq(rows, LAMBDA e : e.key = id))

createConversion(rows, insert, id, t) ==
  Append(rows, Merge(NewConversion(insert, id, t), [key |-> id]))

\* Mutant: an update of an absent id inserts a record.
updateConversionUpsert(rows, id, updates) ==
  IF \E i \in DOMAIN rows : rows[i].key = id
    THEN [i \in DOMAIN rows |->
            IF rows[i].key = id THEN Rekey(Merge(rows[i], updates)) ELSE rows[i]]
    ELSE Append(rows,
           Merge([key |-> id, id |-> id, fromFormat |-> "docx", toFormat |-> "pdf",
                  originalFilename |-> <<"upload", 0>>, filePath |-> 0,
                  fileSize |-> 1, createdAt |-> 0, completedAt |-> NullTime,
                  metadata |-> [quality |-> "high", settings |-> {}],
                  status |-> "pending", downloadUrl |-> NullUrl],
                 updates))

\* Merges `updates` into the record with id `id`, in place; no record, no change.
\* Mutant: the update is merged into every stored record.
updateConversionEvery(rows, id, updates) ==
  [i \in DOMAIN rows |-> Rekey(Merge(rows[i], updates))]

updateConversion(rows, id, updates) ==
  [i \in DOMAIN rows |->
     IF rows[i].key = id THEN Rekey(Merge(rows[i], updates)) ELSE rows[i]]

\* Mutant: the delete has no where clause.
deleteConversionAll(rows, id) == <<>>

deleteConversion(rows, id) == SelectSeq(rows, LAMBDA e : e.key # id)

\* Mutant: the filter keeps every record that has a batch id.
InAnyBatch(conv, batchId) == "batchId" \in DOMAIN conv.metadata

\* The filter of getBatchConversions, in the order the rows are held.
InBatch(conv, batchId) ==
  "batchId" \in DOMAIN conv.metadata /\ conv.metadata.batchId = batchId

getBatchConversions(rows, batchId) ==
  Rows(SelectSeq(rows, LAMBDA e : InBatch(e, batchId)))

\* The orders in which a read of several rows may hand them back: the Map's
\* insertion order on MockStorage; any order for the database's SELECT,
\* which has no ORDER BY.
ReadOrders(rows) ==
  IF backend = "mock" THEN {rows}
  ELSE {[i \in DOMAIN rows |-> rows[p[i]]] : p \in Orderings(Len(rows))}

\* createBatchConversion: one batch id, then one record per file.  The
\* batch id is uuid `base + 1`, the k-th record's id is `base + 1 + k`.
BatchMetadata(metadata, batchId, n) ==
  Merge(metadata, [batchId |-> batchId, batchSize |-> n])

RECURSIVE createBatchFrom(_, _, _, _, _)
createBatchFrom(rows, inserts, k, base, t) ==
  IF k > Len(inserts) THEN rows
  ELSE createBatchFrom(
         createConversion(rows,
            [inserts[k] EXCEPT !.metadata =
               BatchMetadata(inserts[k].metadata, base + 1, Len(inserts))],
            base + 1 + k, t),
         inserts, k + 1, base, t)

createBatchConversion(rows, inserts, base, t) ==
  createBatchFrom(rows, inserts, 1, base, t)

\* Storage calls reject only on the database.
Outcomes == IF backend = "mock" THEN {"ok"} ELSE StoreOutcomes

\* How a storage write for the jobs `ids` may end, with at most MaxFaulty
\* jobs hit by rejections over a run.
WriteOutcomes(ids) ==
  IF Cardinality(faulted \cup ids) <= MaxFaulty THEN Outcomes ELSE {"ok"}

\* The response of a step that is not a request.
NoResponse == [op |-> "none", code |-> 0]

\* ------------------------------------------------------------- Init
\* Browsers, each with its own session cookie.
Clients == {"c1", "c2", "c3"}

\* Values of the userToken cookie.
UserTokens == {"u1", "u2"}

NodeEnvs == {"production", "development"}

\* The most rows user_api_keys holds in a run.
MaxKeys == 4

KeyIds == 1..MaxKeys

InitWith(backends, nodeEnvs) ==
  /\ backend \in backends
  /\ conversions = <<>>
  /\ timers = {}
  /\ now = 0
  /\ uuids = 0
  /\ files = 0
  /\ disk = {}
  /\ response = NoResponse
  /\ uncaught = {}
  /\ faulted = {}
  /\ nodeEnv \in nodeEnvs
  /\ session = [c \in Clients |-> FALSE]
  /\ userApiKeys = <<>>
  /\ apiPayments = <<>>
  /\ inflight = {}
  /\ accepted = [k \in KeyIds |-> 0]

\* The conversion routes do not read NODE_ENV.
Init == InitWith(Backends, {"production"})

\* ------------------------------------------------- upload routes
\* What each route adds to the metadata besides quality and settings.
SingleExtra(legacy, path) ==
  IF legacy
    THEN [uploadedFileName |-> path, originalName |-> <<"upload", path>>,
          mimetype |-> "application/octet-stream"]
    ELSE <<>>

BatchExtra == [isBatch |-> TRUE]

\* The InsertConversion a route builds for one uploaded file.
ConversionData(fromFormat, toFormat, path, quality, settings, extra) ==
  [fromFormat |-> fromFormat,
   toFormat |-> toFormat,
   originalFilename |-> <<"upload", path>>,
   filePath |-> path,
   fileSize |-> 1,
   status |-> "pending",
   metadata |->
     Merge([quality |-> IF quality = Undefined THEN "high" ELSE quality,
            settings |-> ParseSettings(settings)],
           extra)]

\* The batch id in a record's metadata; 0 (never issued) when it has none.
BatchOf(conv) ==
  IF "batchId" \in DOMAIN conv.metadata THEN conv.metadata.batchId ELSE 0

\* The closure handed to setTimeout: it captures `conversion` (its id and
\* its batch), its `index` in the request and the request's raw quality field.
Task(conversion, index, quality) ==
  [job |-> conversion.id, batch |-> BatchOf(conversion), index |-> index,
   quality |-> quality, phase |-> "start", due |-> now + StartDelay(index)]

Reply(op, code, error) == [op |-> op, code |-> code, error |-> error]

\* The form fields of an upload request.
Request(hasFile, fromFormat, toFormat, quality, settings) ==
  [hasFile |-> hasFile, fromFormat |-> fromFormat, toFormat |-> toFormat,
   quality |-> quality, settings |-> settings]

\* The valid upload requests over the given quality and settings fields.
ValidRequests(qualities, settingsInputs) ==
  {Request(TRUE, "docx", "pdf", q, s) : q \in qualities, s \in settingsInputs}

\* The invalid upload requests: no file, or a format field missing.
InvalidRequests ==
  {Request(FALSE, "docx", "pdf", Undefined, Undefined)}
    \cup {Request(TRUE, ft[1], ft[2], Undefined, Undefined) :
            ft \in (FromFormats \X ToFormats) \ {<<"docx", "pdf">>}}

\* Mutant: the format fields are not validated.
SubmitSingleUnvalidated(legacy, req, outcome, limit) ==
  LET op == IF legacy THEN "POST /api/convert" ELSE "POST /api/conversions" IN
  IF ~req.hasFile THEN
    /\ response' = Reply(op, 400, "No file uploaded")
    /\ UNCHANGED <<apiVars, backend, conversions, timers, now, uuids, files, disk, uncaught, faulted>>
  ELSE
    LET path == files + 1
        id == uuids + 1
        data == ConversionData(req.fromFormat, req.toFormat, path, req.quality,
                               req.settings, SingleExtra(legacy, path))
        stored == createConversion(conversions, data, id, now)
    IN  /\ files < limit
        /\ files' = path
        /\ disk' = disk \cup {path}
        /\ uuids' = id
        /\ conversions' = stored
        /\ timers' = timers \cup {Task(Row(stored[Len(stored)]), 0, req.quality)}
        /\ response' = [op |-> op, code |-> IF legacy THEN 200 ELSE 201,
                        conversions |-> <<Row(stored[Len(stored)])>>]
        /\ UNCHANGED <<apiVars, backend, now, uncaught, faulted>>

\* POST /api/conversions and the legacy POST /api/convert: one file.
SubmitSingle(legacy, req, outcome, limit) ==
  LET op == IF legacy THEN "POST /api/convert" ELSE "POST /api/conversions" IN
  IF ~req.hasFile THEN
    /\ response' = Reply(op, 400, "No file uploaded")
    /\ UNCHANGED <<apiVars, backend, conversions, timers, now, uuids, files, disk, uncaught, faulted>>
  ELSE IF req.fromFormat = Undefined \/ req.toFormat = Undefined THEN
    \* multer stored the upload before the handler ran
    /\ files < limit
    /\ files' = files + 1
    /\ disk' = disk \cup {files + 1}
    /\ response' = Reply(op, 400, IF legacy THEN "fromFormat and toFormat are required"
                                            ELSE "Missing format parameters")
    /\ UNCHANGED <<apiVars, backend, conversions, timers, now, uuids, uncaught, faulted>>
  ELSE
    LET path == files + 1
        id == uuids + 1
        data == ConversionData(req.fromFormat, req.toFormat, path, req.quality,
                               req.settings, SingleExtra(legacy, path))
        stored == createConversion(conversions, data, id, now)
    IN  /\ files < limit
        /\ files' = path
        /\ disk' = disk \cup {path}
        /\ uuids' = id
        /\ conversions' = IF outcome = "rejectBefore" THEN conversions ELSE stored
        /\ timers' = IF outcome = "ok" THEN timers \cup {Task(Row(stored[Len(stored)]), 0, req.quality)}
                     ELSE timers
        /\ response' = IF outcome = "ok"
                         THEN [op |-> op, code |-> IF legacy THEN 200 ELSE 201,
                               conversions |-> <<Row(stored[Len(stored)])>>]
                         ELSE Reply(op, 500, "Internal server error")
        /\ faulted' = IF outcome = "ok" THEN faulted ELSE faulted \cup {id}
        /\ UNCHANGED <<apiVars, backend, now, uncaught>>

PostConversions(requests, limit) ==
  \E req \in requests, outcome \in WriteOutcomes({uuids + 1}) :
    SubmitSingle(FALSE, req, outcome, limit)

PostConvert(requests, limit) ==
  \E req \in requests, outcome \in WriteOutcomes({uuids + 1}) :
    SubmitSingle(TRUE, req, outcome, limit)

\* POST /api/conversions/batch: n files.  `returned` is createBatchConversion's
\* result, over which forEach schedules one task per member.
SubmitBatch(n, req, outcome, limit) ==
  LET op == "POST /api/conversions/batch" IN
  IF n = 0 THEN
    /\ response' = Reply(op, 400, "No files uploaded")
    /\ UNCHANGED <<apiVars, backend, conversions, timers, now, uuids, files, disk, uncaught, faulted>>
  ELSE IF req.fromFormat = Undefined \/ req.toFormat = Undefined THEN
    \* multer stored the uploads before the handler ran
    /\ files + n <= limit
    /\ files' = files + n
    /\ disk' = disk \cup {files + k : k \in 1..n}
    /\ response' = Reply(op, 400, "Missing format parameters")
    /\ UNCHANGED <<apiVars, backend, conversions, timers, now, uuids, uncaught, faulted>>
  ELSE
    LET inserts == [k \in 1..n |->
                      ConversionData(req.fromFormat, req.toFormat, files + k,
                                     req.quality, req.settings, BatchExtra)]
        batchId == uuids + 1
        stored == createBatchConversion(conversions, inserts, uuids, now)
    IN  /\ files + n <= limit
        /\ files' = files + n
        /\ disk' = disk \cup {files + k : k \in 1..n}
        /\ uuids' = uuids + 1 + n
        /\ conversions' = IF outcome = "rejectBefore" THEN conversions ELSE stored
        /\ \E returned \in ReadOrders(getBatchConversions(stored, batchId)) :
             /\ timers' = IF outcome = "ok"
                            THEN timers \cup
                                   {Task(returned[i], i - 1, req.quality) : i \in 1..n}
                            ELSE timers
             /\ response' = IF outcome = "ok"
                              THEN [op |-> op, code |-> 201,
                                    batchId |-> returned[1].metadata.batchId,
                                    conversions |-> returned,
                                    totalFiles |-> Len(returned)]
                              ELSE Reply(op, 500, "Internal server error")
        /\ faulted' = IF outcome = "ok" THEN faulted
                      ELSE faulted \cup {batchId + k : k \in 1..n}
        /\ UNCHANGED <<apiVars, backend, now, uncaught>>

\* A request with no files at all, or with 1..MaxBatchFiles files.
PostConversionsBatch(requests, limit) ==
  \E req \in requests :
    IF req.hasFile
      THEN \E n \in 1..MaxBatchFiles :
             \E outcome \in WriteOutcomes({uuids + 1 + k : k \in 1..n}) :
               SubmitBatch(n, req, outcome, limit)
      ELSE SubmitBatch(0, req, "ok", limit)

\* ------------------------------------------------- deferred tasks
\* The event loop runs the pending task that is due first, when it is due:
\* the clock moves to its expiry (tasks due at the same time run in any order).
Max(a, b) == IF a >= b THEN a ELSE b

IsNext(t) == \A u \in timers : t.due <= u.due

\* The outer setTimeout callback runs: it computes processingTime and
\* suspends on the inner setTimeout.
TimerStart ==
  \E t \in timers :
    /\ t.phase = "start"
    /\ IsNext(t)
    /\ now' = Max(now, t.due)
    /\ timers' = (timers \ {t}) \cup
                   {[t EXCEPT !.phase = "work",
                              !.due = now' + ProcessingTime(t.quality, t.index)]}
    /\ response' = NoResponse
    /\ UNCHANGED <<apiVars, backend, conversions, uuids, files, disk, uncaught, faulted>>

\* Mutant: the completing write without its timestamp.
CompletedUnstamped(id, t) ==
  [status |-> "completed", downloadUrl |-> DownloadUrl(id)]

\* Mutant: the completing write without its download reference.
CompletedNoUrl(id, t) ==
  [status |-> "completed", completedAt |-> t]

\* The fields the task writes when the inner timer resolves.
Completed(id, t) ==
  [status |-> "completed", downloadUrl |-> DownloadUrl(id), completedAt |-> t]

\* Mutant: the catch branch puts the job back in the queue.
FailedRequeued == [status |-> "pending"]

Failed == [status |-> "failed"]

\* The inner timer resolves and the task awaits the completing write.  A
\* rejected write enters the catch branch.
TimerFinish ==
  \E t \in timers : \E outcome \in WriteOutcomes({t.job}) :
    /\ t.phase = "work"
    /\ IsNext(t)
    /\ now' = Max(now, t.due)
    /\ conversions' = IF outcome = "rejectBefore" THEN conversions
                      ELSE updateConversion(conversions, t.job, Completed(t.job, now'))
    /\ timers' = IF outcome = "ok" THEN timers \ {t}
                 ELSE (timers \ {t}) \cup {[t EXCEPT !.phase = "catch"]}
    /\ faulted' = IF outcome = "ok" THEN faulted ELSE faulted \cup {t.job}
    /\ response' = NoResponse
    /\ UNCHANGED <<apiVars, backend, uuids, files, disk, uncaught>>

\* The catch branch awaits the write that marks the job failed; nothing
\* catches a rejection of that write.
TimerCatch ==
  \E t \in timers : \E outcome \in WriteOutcomes({t.job}) :
    /\ t.phase = "catch"
    /\ IsNext(t)
    /\ conversions' = IF outcome = "rejectBefore" THEN conversions
                      ELSE updateConversion(conversions, t.job, Failed)
    /\ timers' = timers \ {t}
    /\ uncaught' = IF outcome = "ok" THEN uncaught ELSE uncaught \cup {t.job}
    /\ response' = NoResponse
    /\ UNCHANGED <<apiVars, backend, now, uuids, files, disk, faulted>>

\* ------------------------------------------------------ read routes
\* Ids a caller may present: every uuid drawn so far (job and batch ids),
\* and 0, which was never issued.
KnownIds == 0..uuids

\* The ids of the stored records.
StoredIds == {conversions[i].key : i \in DOMAIN conversions}

\* A read's storage call resolves or rejects; it writes nothing.
ReadOutcomes == Outcomes \ {"rejectAfter"}

\* GET /api/conversions/:id
GetConversion ==
  \E id \in KnownIds, outcome \in ReadOutcomes :
    LET op == "GET /api/conversions/:id"
        found == getConversion(conversions, id)
    IN  /\ response' =
             IF outcome # "ok" THEN Reply(op, 500, "Internal server error")
             ELSE IF Len(found) = 0 THEN Reply(op, 404, "Conversion not found")
             ELSE [op |-> op, code |-> 200, conversions |-> found]
        /\ UNCHANGED <<apiVars, backend, conversions, timers, now, uuids, files, disk, uncaught, faulted>>

\* GET /api/conversions/batch/:batchId
GetBatchConversions ==
  \E batchId \in KnownIds, outcome \in ReadOutcomes :
    LET op == "GET /api/conversions/batch/:batchId" IN
    /\ \E found \in ReadOrders(getBatchConversions(conversions, batchId)) :
         response' =
           IF outcome # "ok" THEN Reply(op, 500, "Internal server error")
           ELSE [op |-> op, code |-> 200, conversions |-> found]
    /\ UNCHANGED <<apiVars, backend, conversions, timers, now, uuids, files, disk, uncaught, faulted>>

\* Mutant: a completed job is served without looking for its artifact.
resolveDownloadUnchecked(rows, present, id) ==
  LET op == "GET /api/download/:id"
      found == getConversion(rows, id)
  IN  IF Len(found) = 0 THEN Reply(op, 404, "Conversion not found")
      ELSE IF found[1].status # "completed" THEN Reply(op, 400, "Conversion not completed")
      ELSE [op |-> op, code |-> 200, file |-> found[1].filePath]

\* Mutant: only a job still under way is answered "not completed".
resolveDownloadTerminal(rows, present, id) ==
  LET op == "GET /api/download/:id"
      found == getConversion(rows, id)
  IN  IF Len(found) = 0 THEN Reply(op, 404, "Conversion not found")
      ELSE IF found[1].status \notin {"completed", "failed"}
        THEN Reply(op, 400, "Conversion not completed")
      ELSE IF found[1].filePath \in present
        THEN [op |-> op, code |-> 200, file |-> found[1].filePath]
        ELSE Reply(op, 404, "File not found")

\* The outcome of GET /api/download/:id on the store `rows` and the
\* uploads directory `present`.
resolveDownload(rows, present, id) ==
  LET op == "GET /api/download/:id"
      found == getConversion(rows, id)
  IN  IF Len(found) = 0 THEN Reply(op, 404, "Conversion not found")
      ELSE IF found[1].status # "completed" THEN Reply(op, 400, "Conversion not completed")
      ELSE IF found[1].filePath \in present
        THEN [op |-> op, code |-> 200, file |-> found[1].filePath]
        ELSE Reply(op, 404, "File not found")

\* GET /api/download/:id
Download ==
  \E id \in KnownIds, outcome \in ReadOutcomes :
    /\ response' = IF outcome # "ok"
                     THEN Reply("GET /api/download/:id", 500, "Internal server error")
                     ELSE resolveDownload(conversions, disk, id)
    /\ UNCHANGED <<apiVars, backend, conversions, timers, now, uuids, files, disk, uncaught, faulted>>

\* Mutant: the first member is served, completed or not.
resolveBatchDownloadFirstMember(found, present, batchId) ==
  LET op == "GET /api/download/batch/:batchId" IN
  IF Len(found) = 0 THEN Reply(op, 404, "Batch not found")
  ELSE IF \A i \in DOMAIN found : found[i].status # "completed"
    THEN Reply(op, 400, "No completed conversions in batch")
  ELSE IF found[1].filePath \in present
    THEN [op |-> op, code |-> 200, file |-> found[1].filePath]
    ELSE Reply(op, 404, "Files not found")

\* The outcome of GET /api/download/batch/:batchId for the members `found`.
resolveBatchDownload(found, present, batchId) ==
  LET op == "GET /api/download/batch/:batchId"
      completedConversions == SelectSeq(found, LAMBDA c : c.status = "completed")
  IN  IF Len(found) = 0 THEN Reply(op, 404, "Batch not found")
      ELSE IF Len(completedConversions) = 0
        THEN Reply(op, 400, "No completed conversions in batch")
      ELSE IF completedConversions[1].filePath \in present
        THEN [op |-> op, code |-> 200, file |-> completedConversions[1].filePath]
        ELSE Reply(op, 404, "Files not found")

\* GET /api/download/batch/:batchId
DownloadBatch ==
  \E batchId \in KnownIds, outcome \in ReadOutcomes :
    /\ \E found \in ReadOrders(getBatchConversions(conversions, batchId)) :
         response' = IF outcome # "ok"
                       THEN Reply("GET /api/download/batch/:batchId", 500,
                                  "Internal server error")
                       ELSE resolveBatchDownload(found, disk, batchId)
    /\ UNCHANGED <<apiVars, backend, conversions, timers, now, uuids, files, disk, uncaught, faulted>>

\* ------------------------------------------------------- deletions
\* storage.deleteConversion(id): the explicit deletion request.
DeleteConversion(ids) ==
  \E id \in ids, outcome \in ReadOutcomes :
    /\ conversions' = IF outcome = "ok" THEN deleteConversion(conversions, id)
                      ELSE conversions
    /\ response' =
         IF outcome = "ok"
           THEN [op |-> "deleteConversion", code |-> 0, id |-> id,
                 existed |-> Len(getConversion(conversions, id)) > 0]
           ELSE Reply("deleteConversion", 500, "rejected")
    /\ UNCHANGED <<apiVars, backend, timers, now, uuids, files, disk, uncaught, faulted>>

\* ------------------------------------------------- direct store calls
\* Partial<Conversion> arguments of updateConversion: every subset of the
\* fields written after creation.
PartialFields == {"status", "downloadUrl", "completedAt"}

FullUpdates ==
  [status : {"failed"}, downloadUrl : {<<"/files/", 0>>}, completedAt : {NullTime}]

Partials == {[k \in fields |-> full[k]] : full \in FullUpdates, fields \in SUBSET PartialFields}

\* An UPDATE that moves a row onto the primary key of another row is
\* rejected by the database.
Collides(rows, id, updates) ==
  /\ backend = "database"
  /\ "id" \in DOMAIN updates
  /\ updates.id # id
  /\ \E i \in DOMAIN rows : rows[i].key = id
  /\ \E i \in DOMAIN rows : rows[i].key = updates.id

\* storage.updateConversion(id, updates), called on the store directly.
UpdateConversion(ids, partials) ==
  \E id \in ids, updates \in partials :
  \E outcome \in IF Collides(conversions, id, updates) THEN {"rejectBefore"}
                 ELSE WriteOutcomes({id}) :
    /\ conversions' = IF outcome = "rejectBefore" THEN conversions
                      ELSE updateConversion(conversions, id, updates)
    /\ response' =
         IF outcome = "ok"
           THEN [op |-> "updateConversion", code |-> 0, id |-> id,
                 updates |-> updates, result |-> getConversion(conversions', id)]
           ELSE Reply("updateConversion", 500, "rejected")
    /\ faulted' = IF outcome = "ok" THEN faulted ELSE faulted \cup {id}
    /\ UNCHANGED <<apiVars, backend, timers, now, uuids, files, disk, uncaught>>

\* DELETE /api/admin/files/:filename: unlinks one stored upload.
AdminDeleteFile ==
  \E path \in 1..files :
    LET op == "DELETE /api/admin/files/:filename" IN
    /\ disk' = disk \ {path}
    /\ response' = IF path \in disk
                     THEN Reply(op, 200, "File deleted successfully")
                     ELSE Reply(op, 500, "Internal server error")
    /\ UNCHANGED <<apiVars, backend, conversions, timers, now, uuids, files, uncaught, faulted>>

\* ------------------------------------------------------------ Next
AllRequests == ValidRequests(Qualities, SettingsInputs) \cup InvalidRequests

Next ==
  \/ PostConversions(AllRequests, MaxJobs)
  \/ PostConvert(AllRequests, MaxJobs)
  \/ PostConversionsBatch(AllRequests, MaxJobs)
  \/ TimerStart
  \/ TimerFinish
  \/ TimerCatch
  \/ GetConversion
  \/ GetBatchConversions
  \/ Download
  \/ DownloadBatch
  \/ DeleteConversion(KnownIds)
  \/ AdminDeleteFile

Spec == Init /\ [][Next]_vars

\* The job lifecycle alone: valid uploads, their deferred tasks, deletions.
\* The settings field is left out: it reaches only metadata.settings.
LifeRequests == ValidRequests({"medium", Undefined}, {Undefined})

NextLife ==
  \/ PostConversions(LifeRequests, LifeJobs)
  \/ PostConvert(LifeRequests, LifeJobs)
  \/ PostConversionsBatch(LifeRequests, LifeJobs)
  \/ TimerStart
  \/ TimerFinish
  \/ TimerCatch
  \/ DeleteConversion(StoredIds)

SpecLife == Init /\ [][NextLife]_vars

\* One batch route with quality "low", and the tasks of its members.
BatchRequests == ValidRequests({"low"}, {Undefined})

NextBatch ==
  \/ PostConversionsBatch(BatchRequests, BatchFiles)
  \/ TimerStart
  \/ TimerFinish
  \/ TimerCatch

SpecBatch == Init /\ [][NextBatch]_vars

\* Single submissions, their tasks, and what a download can meet: a job
\* under way, finished, failed, deleted, or with its artifact unlinked.
DownloadRequests == ValidRequests({Undefined}, {Undefined})

NextDownload ==
  \/ PostConversions(DownloadRequests, DownloadJobs)
  \/ TimerStart
  \/ TimerFinish
  \/ TimerCatch
  \/ Download
  \/ DeleteConversion(StoredIds)
  \/ AdminDeleteFile

SpecDownload == Init /\ [][NextDownload]_vars

\* Batches, their tasks, and what a batch download can meet: members under
\* way, finished, failed, deleted, or with their artifact unlinked.
NextBatchDownload ==
  \/ PostConversionsBatch(DownloadRequests, BatchDownloadFiles)
  \/ TimerStart
  \/ TimerFinish
  \/ TimerCatch
  \/ DownloadBatch
  \/ DeleteConversion(StoredIds)
  \/ AdminDeleteFile

SpecBatchDownload == Init /\ [][NextBatchDownload]_vars

\* The store behind IStorage called directly, beside one route that fills
\* it and the tasks that route schedules.
NextStore ==
  \/ PostConversions(DownloadRequests, StoreJobs)
  \/ TimerStart
  \/ TimerFinish
  \/ TimerCatch
  \/ UpdateConversion(KnownIds, Partials)
  \/ DeleteConversion(KnownIds)

SpecStore == Init /\ [][NextStore]_vars

\* Uploads that carry a settings field, parseable or not, and their tasks.
SettingsRequests == ValidRequests({"low"}, SettingsInputs \ {Undefined})

NextSettings ==
  \/ PostConversions(SettingsRequests, SettingsJobs)
  \/ PostConvert(SettingsRequests, SettingsJobs)
  \/ PostConversionsBatch(SettingsRequests, SettingsJobs)
  \/ TimerStart
  \/ TimerFinish
  \/ TimerCatch

SpecSettings == Init /\ [][NextSettings]_vars

\* A due timer is run: the event loop does not starve its timer queue.
FairLife ==
  /\ SpecLife
  /\ WF_vars(TimerStart)
  /\ WF_vars(TimerFinish)
  /\ WF_vars(TimerCatch)

\* ------------------------------------------------------------ claims
Terminal == {"completed", "failed"}

\* The stored record with id `id` (for a stored id).
Stored(rows, id) == getConversion(rows, id)[1]

\* Every id a run of the lifecycle specification can draw.
LifeIds == 1..(2 * LifeJobs)

SingleOps == {"POST /api/conversions", "POST /api/convert"}

\* A stored job of a single submission whose deferred task is scheduled.
SingleScheduled(id) ==
  /\ id \in StoredIds
  /\ BatchOf(Stored(conversions, id)) = 0
  /\ \E t \in timers : t.job = id

\* get(id) shows the job completed, with its download reference and stamp.
ShownCompleted(id) ==
  LET found == getConversion(conversions, id) IN
  /\ Len(found) = 1
  /\ found[1].status = "completed"
  /\ found[1].downloadUrl # NullUrl
  /\ found[1].completedAt # NullTime

\* C1: a valid single submission answers with the stored job, pending, its
\* task not yet run; and unless the job is deleted or a storage call for it
\* rejects, get(id) eventually shows it completed with a download
\* reference and a completion timestamp.
C1_SubmitPendingThenCompleted ==
  /\ [](response.op \in SingleOps /\ response.code \in {200, 201} =>
         LET c == response.conversions[1] IN
         /\ c.status = "pending"
         /\ getConversion(conversions, c.id) = <<c>>
         /\ \E t \in timers : t.job = c.id /\ t.phase = "start")
  /\ \A id \in LifeIds :
       SingleScheduled(id) ~>
         (id \notin StoredIds \/ id \in faulted \/ ShownCompleted(id))

\* A single submission's job is completed, never faulted.
C1_Witness ==
  \E id \in StoredIds :
    /\ BatchOf(Stored(conversions, id)) = 0
    /\ id \notin faulted
    /\ ShownCompleted(id)

\* C2: a job enters a terminal status only from status processing, so every
\* completed or failed job was processing before and none goes from
\* pending straight to a terminal status.
C2_TerminalOnlyFromProcessing ==
  [][\A id \in StoredIds :
       (id \in StoredIds'
          /\ Stored(conversions, id).status \notin Terminal
          /\ Stored(conversions', id).status \in Terminal)
         => Stored(conversions, id).status = "processing"]_vars

\* C3: once a job's status is completed or failed it is never again
\* pending or processing, whatever step comes next.
C3_StatusMonotonic ==
  [][\A id \in StoredIds :
       (id \in StoredIds' /\ Stored(conversions, id).status \in Terminal)
         => Stored(conversions', id).status \in Terminal]_vars

\* A job that was completed and then marked failed: a terminal job that
\* took a further status write.
C3_Witness ==
  \E id \in StoredIds :
    /\ Stored(conversions, id).status = "failed"
    /\ Stored(conversions, id).completedAt # NullTime

C5_CompletedAtIffTerminal ==
  \A id \in StoredIds :
    Stored(conversions, id).completedAt = NullTime
      <=> Stored(conversions, id).status \notin Terminal

\* C5 as amended: completedAt is null for a pending or processing job and
\* set for a completed one; a failed job has it set exactly when the
\* completing write had reached the store before it was reported rejected.
C5_CompletedAtIffCompletingWrite ==
  \A id \in StoredIds :
    LET c == Stored(conversions, id) IN
    /\ c.status \in {"pending", "processing"} => c.completedAt = NullTime
    /\ c.status = "completed" => c.completedAt # NullTime
    /\ c.status = "failed" => (c.completedAt # NullTime <=> c.downloadUrl # NullUrl)
    /\ c.completedAt # NullTime => c.completedAt >= c.createdAt

\* Both kinds of failed job, and a completed one, are stored.
C5_Witness ==
  /\ \E id \in StoredIds :
       Stored(conversions, id).status = "failed"
         /\ Stored(conversions, id).completedAt = NullTime
  /\ \E id \in StoredIds :
       Stored(conversions, id).status = "completed"
         /\ Stored(conversions, id).completedAt # NullTime

IdsOf(rows) == {rows[i].id : i \in DOMAIN rows}

\* C6: a batch submission of N files stores exactly N new jobs under a
\* fresh batch id, each with batchSize N; afterwards getBatch of any batch
\* id issued loses members only by their deletion, gains none, and their metadata
\* stays as stored.  So until a member is deleted getBatch returns exactly
\* the N jobs of that submission.
C6_BatchMembership ==
  [][\A b \in 1..uuids' :
       LET before == getBatchConversions(conversions, b)
           after == getBatchConversions(conversions', b)
       IN  IF response'.op = "POST /api/conversions/batch" /\ response'.code = 201
              /\ response'.batchId = b
             THEN /\ before = <<>>
                  /\ Len(after) = files' - files
                  /\ Len(after) \in 1..MaxBatchFiles
                  /\ IdsOf(after) \cap StoredIds = {}
                  /\ IdsOf(after) = IdsOf(response'.conversions)
                  /\ \A i \in DOMAIN after :
                       /\ after[i].metadata.batchSize = Len(after)
                       /\ after[i].metadata.batchId = b
             ELSE b <= uuids =>
                    /\ IdsOf(after) = IdsOf(before) \cap StoredIds'
                    /\ \A i \in DOMAIN after :
                         after[i].metadata = Stored(conversions, after[i].id).metadata]_vars

\* A whole batch of two is stored.
C6_Witness ==
  \E b \in 1..uuids :
    /\ Len(getBatchConversions(conversions, b)) = 2
    /\ getBatchConversions(conversions, b)[1].metadata.batchSize = 2

\* C7: when a batch member's inner timer fires, no member with a smaller
\* index of that batch still has a task pending; and the total deferral
\* grows strictly with the index.
C7_BatchOrder ==
  /\ [][\A t \in timers :
          (t.phase = "work" /\ t.batch # 0 /\ t \notin timers')
            => ~\E u \in timers : u.batch = t.batch /\ u.index < t.index]_vars
  /\ [](\A q \in Qualities : \A i, j \in 0..(MaxBatchFiles - 1) :
          i < j => StartDelay(i) + ProcessingTime(q, i)
                     < StartDelay(j) + ProcessingTime(q, j))

\* Member 0 of a batch is completed while member 1 still waits.
C7_Witness ==
  \E t \in timers :
    /\ t.batch # 0
    /\ t.index = 1
    /\ \E id \in StoredIds :
         /\ BatchOf(Stored(conversions, id)) = t.batch
         /\ Stored(conversions, id).status = "completed"

\* The batches of three unfaulted members.
BatchesOfThree ==
  {b \in 1..uuids :
     LET found == getBatchConversions(conversions, b) IN
     /\ Len(found) = 3
     /\ IdsOf(found) \cap faulted = {}}

\* C8 as claimed: a batch of three "low" files is all completed once the
\* base delay, two staggers of 100 ms and the initial offset have elapsed.
C8_AllCompletedAfterStagger ==
  \A b \in BatchesOfThree :
    LET found == getBatchConversions(conversions, b) IN
    now >= found[1].createdAt + InitialDelayMs + LowMs + 2 * BatchStaggerMs
      => \A i \in 1..3 : found[i].status = "completed"

\* C8 as amended: the member scheduled at index k (from 0) of a batch of
\* three "low" files completes exactly 100 + 100k + 1000 + 500k ms after
\* submission (1100, 1700, 2300), and until then it is pending with its
\* task scheduled no later than that; so all three are completed once
\* more than 2300 ms have elapsed.
C8_AllCompletedAfterStride ==
  \A b \in BatchesOfThree :
    LET found == getBatchConversions(conversions, b)
        created == found[1].createdAt
        Done(k) == created + StartDelay(k) + ProcessingTime("low", k)
        tasks == {t \in timers : t.batch = b}
        waiting == {t.index : t \in tasks}
        completed == {i \in 1..3 : found[i].status = "completed"}
    IN  /\ \A k \in 0..2 :
             Done(k) = created + InitialDelayMs + LowMs
                         + k * (BatchStaggerMs + BatchStrideMs)
        /\ Done(2) = created + 2300
        /\ \A t \in tasks :
             /\ Stored(conversions, t.job).status = "pending"
             /\ t.due <= Done(t.index)
             /\ now <= Done(t.index)
        /\ Cardinality(waiting) = Cardinality(tasks)
        /\ Cardinality(completed) = 3 - Cardinality(tasks)
        /\ {found[i].completedAt : i \in completed}
             = {Done(k) : k \in (0..2) \ waiting}
        /\ \A i \in (1..3) \ completed : \E t \in tasks : t.job = found[i].id

\* All three members are completed, 2300 ms after submission.
C8_Witness ==
  \E b \in BatchesOfThree :
    LET found == getBatchConversions(conversions, b) IN
    /\ \A i \in 1..3 : found[i].status = "completed"
    /\ now = found[1].createdAt + 2300

NotFound == {"Conversion not found", "File not found"}

\* C9: a download of an id that is not stored answers NotFound; of a stored
\* job that is not completed, NotReady (400, not 404); of a completed job,
\* the file iff the artifact at its stored path is present and NotFound
\* otherwise; and a download step changes no job.
C9_DownloadOutcomes ==
  /\ [](\A id \in KnownIds :
          LET r == resolveDownload(conversions, disk, id) IN
          IF id \notin StoredIds
            THEN r.code = 404 /\ r.error = "Conversion not found"
          ELSE IF Stored(conversions, id).status # "completed"
            THEN r.code = 400 /\ r.error \notin NotFound
          ELSE IF Stored(conversions, id).filePath \in disk
            THEN r.code = 200 /\ r.file = Stored(conversions, id).filePath
            ELSE r.code = 404 /\ r.error = "File not found")
  /\ [][response'.op = "GET /api/download/:id" =>
          /\ conversions' = conversions
          /\ disk' = disk
          /\ \/ response'.code = 500
             \/ \E id \in KnownIds :
                  response' = resolveDownload(conversions, disk, id)]_vars

\* A completed job whose artifact was unlinked has just been asked for.
C9_Witness ==
  /\ response.op = "GET /api/download/:id"
  /\ response.code = 404
  /\ response.error = "File not found"
  /\ \E id \in StoredIds :
       /\ Stored(conversions, id).status = "completed"
       /\ Stored(conversions, id).filePath \notin disk

\* C10 as claimed: a stored job in a terminal state, completed or failed,
\* is never answered NotReady.
C10_NotReadyOnlyNonTerminal ==
  \A id \in StoredIds :
    Stored(conversions, id).status \in Terminal
      => resolveDownload(conversions, disk, id).code # 400

\* C10 as amended: NotReady is the answer exactly for a stored job whose
\* status is not completed; a failed job is answered NotReady.
C10_NotReadyIffNotCompleted ==
  \A id \in KnownIds :
    resolveDownload(conversions, disk, id).code = 400
      <=> (id \in StoredIds /\ Stored(conversions, id).status # "completed")

\* The download of a failed job has just been answered NotReady.
C10_Witness ==
  /\ response.op = "GET /api/download/:id"
  /\ response.code = 400
  /\ \A id \in StoredIds : Stored(conversions, id).status = "failed"
  /\ StoredIds # {}

\* The completed members of batch b, in creation order.
CompletedOf(b) ==
  SelectSeq(getBatchConversions(conversions, b), LAMBDA c : c.status = "completed")

\* C11 as claimed: a batch download answers NotFound for a batch with no
\* stored member, NoCompletedMembers for one with members none of which is
\* completed, and otherwise the artifact of the first completed member in
\* creation order.
C11_BatchDownloadOutcomes ==
  \A b \in KnownIds :
    \A found \in ReadOrders(getBatchConversions(conversions, b)) :
      LET r == resolveBatchDownload(found, disk, b) IN
      IF Len(found) = 0 THEN r.code = 404 /\ r.error = "Batch not found"
      ELSE IF CompletedOf(b) = <<>> THEN r.code = 400
      ELSE r.code = 200 /\ r.file = CompletedOf(b)[1].filePath

\* C11 as amended: NotFound for a batch with no stored member, and
\* NoCompletedMembers (400) for one with members none of which is
\* completed; otherwise the first completed member in the order the store
\* hands the members back is chosen, which is creation order on the
\* in-memory store, and its artifact is served iff it is present, the
\* answer being NotFound ("Files not found") when it is not.  The four
\* answers exclude each other, and a batch download changes no job.
C11_BatchDownloadOrMissing ==
  /\ [](\A b \in KnownIds :
          \A found \in ReadOrders(getBatchConversions(conversions, b)) :
            LET r == resolveBatchDownload(found, disk, b)
                done == {i \in DOMAIN found : found[i].status = "completed"}
                first == CHOOSE i \in done : \A j \in done : i <= j
            IN  IF Len(found) = 0 THEN r.code = 404 /\ r.error = "Batch not found"
                ELSE IF done = {}
                  THEN r.code = 400 /\ r.error = "No completed conversions in batch"
                ELSE /\ backend = "mock" => found[first] = CompletedOf(b)[1]
                     /\ IF found[first].filePath \in disk
                          THEN r.code = 200 /\ r.file = found[first].filePath
                          ELSE r.code = 404 /\ r.error = "Files not found")
  /\ [][response'.op = "GET /api/download/batch/:batchId" =>
          /\ conversions' = conversions
          /\ disk' = disk
          /\ \/ response'.code = 500
             \/ \E b \in KnownIds :
                  \E found \in ReadOrders(getBatchConversions(conversions, b)) :
                    response' = resolveBatchDownload(found, disk, b)]_vars

\* A batch with a completed member whose artifact was unlinked has just
\* been asked for.
C11_Witness ==
  /\ response.op = "GET /api/download/batch/:batchId"
  /\ response.code = 404
  /\ response.error = "Files not found"
  /\ \E b \in KnownIds :
       /\ Len(getBatchConversions(conversions, b)) = 2
       /\ CompletedOf(b) # <<>>
       /\ CompletedOf(b)[1].filePath \notin disk

\* The fields of a stored record.
ConversionFields ==
  {"id", "fromFormat", "toFormat", "originalFilename", "filePath", "fileSize",
   "createdAt", "completedAt", "metadata", "status", "downloadUrl"}

\* C12: after updateConversion(id, partial) on a stored id, with partial
\* over the fields written after creation, get(id) returns each field named
\* in partial with the supplied value and every other field with the value
\* it had before; the call returns that record, and no other record changes.
C12_UpdateMergeRoundTrip ==
  [][(response'.op = "updateConversion" /\ response'.code = 0
        /\ response'.id \in StoredIds) =>
       LET id == response'.id
           partial == response'.updates
           before == Stored(conversions, id)
           got == getConversion(conversions', id)
       IN  /\ Len(got) = 1
           /\ DOMAIN got[1] = ConversionFields
           /\ \A k \in DOMAIN partial : got[1][k] = partial[k]
           /\ \A k \in ConversionFields \ DOMAIN partial : got[1][k] = before[k]
           /\ response'.result = got
           /\ Len(conversions') = Len(conversions)
           /\ \A i \in DOMAIN conversions :
                conversions[i].key # id => conversions'[i] = conversions[i]]_vars

\* An update of two fields of a completed job has just returned: the
\* status it named is stored, the completion stamp it did not name is kept.
C12_Witness ==
  /\ response.op = "updateConversion"
  /\ response.code = 0
  /\ DOMAIN response.updates = {"status", "downloadUrl"}
  /\ Len(response.result) = 1
  /\ response.result[1].status = "failed"
  /\ response.result[1].completedAt = 1100

\* C13: a delete that returns answers true exactly when a record with that
\* id was stored and removes that record and no other; on an absent id it
\* answers false and leaves the store as it was; a delete that directly
\* follows a successful delete of the same id answers false.  On the
\* in-memory store a delete never raises.
C13_DeleteIdempotent ==
  /\ [][(response'.op = "deleteConversion" /\ response'.code = 0) =>
          LET id == response'.id IN
          /\ response'.existed = (id \in StoredIds)
          /\ StoredIds' = StoredIds \ {id}
          /\ Len(conversions') = Cardinality(StoredIds')
          /\ \A j \in StoredIds' : Stored(conversions', j) = Stored(conversions, j)
          /\ id \notin StoredIds => conversions' = conversions
          /\ (response.op = "deleteConversion" /\ response.code = 0
                /\ response.id = id)
               => ~response'.existed]_vars
  /\ [](backend = "mock" => ~(response.op = "deleteConversion" /\ response.code # 0))

\* A job that was stored and deleted has just been deleted again, beside
\* another job that is still stored.
C13_Witness ==
  /\ response.op = "deleteConversion"
  /\ response.code = 0
  /\ ~response.existed
  /\ response.id \in (1..uuids) \ (StoredIds \cup faulted)
  /\ StoredIds # {}

\* C14: when the task of a job that is no longer stored fires, the store
\* is left as it was, and unless the store call itself rejects the task
\* ends there with no unhandled rejection; an id that was issued and is
\* not stored is never stored afterwards.
C14_FiringAfterDeleteIsNoOp ==
  /\ [][\A t \in timers :
          (t.phase \in {"work", "catch"} /\ t \notin timers'
             /\ t.job \notin StoredIds) =>
            /\ conversions' = conversions
            /\ t.job \notin faulted' =>
                 /\ ~\E u \in timers' : u.job = t.job
                 /\ uncaught' = uncaught]_vars
  /\ [][\A id \in 1..uuids : id \notin StoredIds => id \notin StoredIds']_vars

\* The only job ever submitted was deleted while its task was pending, and
\* the task has since fired: the store is empty and nothing was raised.
C14_Witness ==
  /\ uuids = 1
  /\ files = 1
  /\ conversions = <<>>
  /\ timers = {}
  /\ faulted = {}
  /\ uncaught = {}
  /\ response = NoResponse
  /\ now > InitialDelayMs

\* The tasks pending for job id.
TasksOf(pending, id) == {t \in pending : t.job = id}

\* C15: when the completing write of a stored job fails, the write is not
\* attempted again and the task ends with the job failed and without a
\* download reference; when it succeeds the job is completed, and a
\* completed job whose task has ended stays completed.
C15_FailedOnWriteFailure ==
  [][/\ \A t \in timers :
          (t \notin timers' /\ t.job \in StoredIds /\ t.job \in StoredIds') =>
            LET after == Stored(conversions', t.job) IN
            /\ t.phase = "work" =>
                 IF TasksOf(timers', t.job) = {}
                   THEN after.status = "completed"
                   ELSE \A u \in TasksOf(timers', t.job) : u.phase = "catch"
            /\ t.phase = "catch" =>
                 /\ TasksOf(timers', t.job) = {}
                 /\ after.status = "failed"
                 /\ after.downloadUrl = NullUrl
     /\ \A id \in StoredIds \cap StoredIds' :
          (Stored(conversions, id).status = "completed" /\ TasksOf(timers, id) = {})
            => Stored(conversions', id).status = "completed"]_vars

\* C16: no deferred task ends in an unhandled rejection, whichever of its
\* store writes reject.
C16_NoUncaughtFault == uncaught = {}

UploadOps ==
  {"POST /api/conversions", "POST /api/convert", "POST /api/conversions/batch"}

\* C17: a single or batch submission with no file, or with fromFormat or
\* toFormat missing or empty, is answered with a validation error (400),
\* and a submission answered so stores no job, draws no id and schedules no
\* task.
C17_InvalidSubmissionRejected ==
  /\ [][\A req \in InvalidRequests :
          (\/ \E legacy \in BOOLEAN : SubmitSingle(legacy, req, "ok", MaxJobs)
           \/ \E n \in 0..MaxBatchFiles :
                (n > 0 <=> req.hasFile) /\ SubmitBatch(n, req, "ok", MaxJobs))
            => /\ response'.op \in UploadOps
               /\ response'.code = 400
               /\ conversions' = conversions
               /\ timers' = timers
               /\ uuids' = uuids]_vars
  /\ [][(response'.op \in UploadOps /\ response'.code = 400) =>
          /\ conversions' = conversions
          /\ timers' = timers
          /\ uuids' = uuids]_vars

\* An upload with a file but without its format fields has just been
\* refused: the file is on disk, the store is empty.
C17_Witness ==
  /\ response.op \in UploadOps
  /\ response.code = 400
  /\ response.error # "No file uploaded"
  /\ response.error # "No files uploaded"
  /\ files = 1
  /\ conversions = <<>>
  /\ timers = {}

\* The requests of SettingsRequests whose settings text is not JSON.
BadSettingsRequests == {req \in SettingsRequests : req.settings = "{dpi"}

WithoutSettings(req) == [req EXCEPT !.settings = Undefined]

\* C18: a submission whose settings text does not parse is not refused: the
\* step is the very step of the same submission without a settings field,
\* and when the store accepts it every job it creates carries empty
\* settings and has its task scheduled at the usual delay.
C18_BadSettingsAsNoSettings ==
  [][\A req \in BadSettingsRequests : \A outcome \in StoreOutcomes :
       /\ \A legacy \in BOOLEAN :
            SubmitSingle(legacy, req, outcome, SettingsJobs) =>
              /\ SubmitSingle(legacy, WithoutSettings(req), outcome, SettingsJobs)
              /\ response'.code # 400
              /\ outcome = "ok" =>
                   LET c == response'.conversions[1] IN
                   /\ response'.code \in {200, 201}
                   /\ getConversion(conversions', c.id) = <<c>>
                   /\ c.metadata.settings = {}
                   /\ \E t \in timers' \ timers :
                        t.job = c.id /\ t.phase = "start" /\ t.due = now + InitialDelayMs
       /\ \A n \in 1..MaxBatchFiles :
            SubmitBatch(n, req, outcome, SettingsJobs) =>
              /\ SubmitBatch(n, WithoutSettings(req), outcome, SettingsJobs)
              /\ response'.code # 400
              /\ outcome = "ok" =>
                   /\ response'.code = 201
                   /\ Len(response'.conversions) = n
                   /\ \A i \in 1..n :
                        LET c == response'.conversions[i] IN
                        /\ getConversion(conversions', c.id) = <<c>>
                        /\ c.metadata.settings = {}
                        /\ \E t \in timers' \ timers :
                             /\ t.job = c.id
                             /\ t.phase = "start"
                             /\ t.due = now + StartDelay(i - 1)]_vars

\* A batch of two whose settings text did not parse is stored with empty
\* settings and a task for each member.
C18_Witness ==
  \E b \in 1..uuids :
    LET found == getBatchConversions(conversions, b) IN
    /\ Len(found) = 2
    /\ \A i \in 1..2 :
         /\ found[i].metadata.settings = {}
         /\ TasksOf(timers, found[i].id) # {}

C20_DownloadUrlOwnId ==
  /\ \A id \in StoredIds :
       LET c == Stored(conversions, id) IN
       /\ c.status = "completed" => c.downloadUrl # NullUrl
       /\ c.downloadUrl # NullUrl =>
            /\ c.downloadUrl = <<"/api/download/", id>>
            /\ \A other \in StoredIds \ {id} : c.downloadUrl[2] # other
  /\ \A i, j \in StoredIds :
       (i # j /\ Stored(conversions, i).downloadUrl # NullUrl)
         => Stored(conversions, i).downloadUrl # Stored(conversions, j).downloadUrl

\* Two members of one batch are both completed.
C20_Witness ==
  \E i, j \in StoredIds :
    /\ i # j
    /\ BatchOf(Stored(conversions, i)) # 0
    /\ BatchOf(Stored(conversions, i)) = BatchOf(Stored(conversions, j))
    /\ Stored(conversions, i).status = "completed"
    /\ Stored(conversions, j).status = "completed"

\* ------------------------------------------------------------ identity
\* The store called directly with partial records that may name the id
\* field, which Partial<Conversion> allows.  The id named is one already
\* issued, or 0, which is never issued.
IdentityJobs == 2

IdentityPartials ==
  {[status |-> "failed"]}
    \cup {[id |-> x] : x \in KnownIds}
    \cup {[id |-> 0, status |-> "failed"]}

NextIdentity ==
  \/ PostConversions(DownloadRequests, IdentityJobs)
  \/ UpdateConversion(KnownIds, IdentityPartials)
  \/ DeleteConversion(KnownIds)

SpecIdentity == Init /\ [][NextIdentity]_vars

\* C21: a created job gets an id no job had before, is stored pending and
\* is retrievable at once by that id; and after any creates, updates and
\* deletes the record retrieved by an id carries that id.
C21_FreshIdAndIdentity ==
  [][/\ (response'.op = "POST /api/conversions" /\ response'.code = 201) =>
          LET c == response'.conversions[1] IN
          /\ c.id \notin KnownIds
          /\ c.status = "pending"
          /\ getConversion(conversions', c.id) = <<c>>
     /\ \A id \in StoredIds' : getConversion(conversions', id)[1].id = id]_vars

\* The first half of C21 alone: fresh id, pending, retrievable at once.
C21_CreatedFreshPendingRetrievable ==
  [][(response'.op = "POST /api/conversions" /\ response'.code = 201) =>
       LET c == response'.conversions[1] IN
       /\ c.id \notin KnownIds
       /\ c.status = "pending"
       /\ getConversion(conversions', c.id) = <<c>>]_vars

\* A record is retrieved by an id it does not carry.
C21_Witness ==
  \E id \in StoredIds : getConversion(conversions, id)[1].id # id

\* --------------------------------------------------------------- frame
\* Both upload routes, the tasks they schedule, every read route, deletion.
FrameJobs == 2

NextFrame ==
  \/ PostConversions(DownloadRequests, FrameJobs)
  \/ PostConversionsBatch(DownloadRequests, FrameJobs)
  \/ TimerStart
  \/ TimerFinish
  \/ TimerCatch
  \/ GetConversion
  \/ GetBatchConversions
  \/ Download
  \/ DownloadBatch
  \/ DeleteConversion(StoredIds)

SpecFrame == Init /\ [][NextFrame]_vars

TaskFields == {"status", "downloadUrl", "completedAt"}

\* Entry `after` is entry `before` up to the fields a task writes.
SameOutside(before, after, fields) ==
  /\ DOMAIN after = DOMAIN before
  /\ \A k \in DOMAIN before \ fields : after[k] = before[k]

\* C22: once created, a job changes only through its own deferred task or
\* a deletion: a step of the task of job j changes at most status,
\* downloadUrl and completedAt of j and nothing else in the store, and get,
\* getBatch and both downloads leave the store as it was.
C22_FrameEffects ==
  [][/\ (TimerStart \/ TimerFinish \/ TimerCatch) =>
          \E t \in timers \ timers' :
            /\ Len(conversions') = Len(conversions)
            /\ \A i \in DOMAIN conversions :
                 \/ conversions'[i] = conversions[i]
                 \/ /\ conversions[i].key = t.job
                    /\ SameOutside(conversions[i], conversions'[i], TaskFields)
     /\ (GetConversion \/ GetBatchConversions \/ Download \/ DownloadBatch) =>
          conversions' = conversions
     /\ \A i \in DOMAIN conversions :
          \/ \E j \in DOMAIN conversions' : conversions'[j] = conversions[i]
          \/ /\ response'.op = "deleteConversion"
             /\ response'.id = conversions[i].key
             /\ conversions[i].key \notin StoredIds'
          \/ \E t \in timers \ timers' :
               /\ t.job = conversions[i].key
               /\ \E j \in DOMAIN conversions' :
                    SameOutside(conversions[i], conversions'[j], TaskFields)]_vars

\* A task has completed one job beside another still pending, and a read
\* route has just answered with a record.
C22_Witness ==
  /\ \E i, j \in StoredIds :
       /\ Stored(conversions, i).status = "completed"
       /\ Stored(conversions, j).status = "pending"
  /\ response.op \in {"GET /api/conversions/:id", "GET /api/conversions/batch/:batchId",
                      "GET /api/download/:id", "GET /api/download/batch/:batchId"}
  /\ response.code = 200

C23_EventuallyTerminal ==
  \A id \in LifeIds :
    (id \in StoredIds) ~>
      (\/ id \notin StoredIds
       \/ id \in faulted
       \/ Stored(conversions, id).status \in Terminal)

\* The safety half of C23 where no storage call rejects.
C23_OneTaskOneTerminalTransitionNoFault ==
  [][faulted' = {} =>
       /\ \A id \in StoredIds' \ StoredIds :
            Cardinality(TasksOf(timers', id)) = 1
       /\ \A t \in timers' :
            (\A u \in timers : u.job # t.job) => t.job \in StoredIds' \ StoredIds
       /\ \A id \in StoredIds :
            Cardinality(TasksOf(timers, id)) <= 1
       /\ \A id \in StoredIds \cap StoredIds' :
            Stored(conversions, id).status \in Terminal =>
              Stored(conversions', id).status = Stored(conversions, id).status]_vars

\* A job is stored, pending, with no task scheduled for it, or a job is
\* failed after its completing write had been applied.
C23_Witness ==
  \E id \in StoredIds :
    \/ /\ Stored(conversions, id).status = "pending"
       /\ TasksOf(timers, id) = {}
    \/ /\ Stored(conversions, id).status = "failed"
       /\ Stored(conversions, id).downloadUrl # NullUrl

\* ------------------------------------------------------------ getBatch
\* The stored jobs that carry batch id b.
MembersOf(b) ==
  {id \in StoredIds :
     LET metadata == Stored(conversions, id).metadata IN
     "batchId" \in DOMAIN metadata /\ metadata.batchId = b}

\* `found` is the stored members of batch b, each once, as stored.
IsMembers(found, b) ==
  /\ Len(found) = Cardinality(MembersOf(b))
  /\ IdsOf(found) = MembersOf(b)
  /\ \A i \in DOMAIN found : found[i] = Stored(conversions, found[i].id)

\* Ids are issued in increasing order, so creation order is id order.
InCreationOrder(found) ==
  \A i, j \in DOMAIN found : i < j => found[i].id < found[j].id

C24_GetBatchIsMembers ==
  [][GetBatchConversions =>
       /\ response'.code # 404
       /\ response'.code = 200 =>
            \E b \in KnownIds : IsMembers(response'.conversions, b)]_vars

\* C24 on MockStorage, order included.
C24_GetBatchIsReferenceOnMock ==
  [][(GetBatchConversions /\ backend = "mock") =>
       /\ response'.code = 200
       /\ \E b \in KnownIds :
            /\ IsMembers(response'.conversions, b)
            /\ InCreationOrder(response'.conversions)]_vars

\* A batch of two was read with one member deleted, or with none left.
C24_Witness ==
  /\ response.op = "GET /api/conversions/batch/:batchId"
  /\ response.code = 200
  /\ \E b \in KnownIds \ {0} :
       /\ b + 2 <= uuids
       /\ IsMembers(response.conversions, b)
       /\ Len(response.conversions) < 2
       /\ b \notin StoredIds
       /\ \A id \in StoredIds : id < b \/ id > b + 2
            \/ BatchOf(Stored(conversions, id)) = b

\* -------------------------------------------------------- delay and quality
\* C26: when a task starts, the base delay it waits (its delay less the
\* batch stride term) is the one that goes with the quality recorded in the
\* job's metadata: 3000 for high, 2000 for medium, 1000 otherwise.
C26_BaseDelayAgreesWithMetadata ==
  [][TimerStart =>
       \A t \in timers \ timers' : \A u \in timers' \ timers :
         t.job \in StoredIds =>
           u.due - now' - t.index * BatchStrideMs
             = BaseDelay(Stored(conversions, t.job).metadata.quality)]_vars

\* C26 for the submissions that carry a quality field.
C26_BaseDelayAgreesWhenQualityGiven ==
  [][TimerStart =>
       \A t \in timers \ timers' : \A u \in timers' \ timers :
         (t.job \in StoredIds /\ t.quality # Undefined) =>
           u.due - now' - t.index * BatchStrideMs
             = BaseDelay(Stored(conversions, t.job).metadata.quality)]_vars

\* The task of a job recorded as high quality waits the low-quality delay.
C26_Witness ==
  \E t \in timers :
    /\ t.phase = "work"
    /\ t.job \in StoredIds
    /\ Stored(conversions, t.job).metadata.quality = "high"
    /\ t.due = now + LowMs + t.index * BatchStrideMs

\* ---------------------------------------------------------- admin gate
\* `process.env.ADMIN_ACCESS_KEY || 'MY_SECRET_KEY_2024'`
AdminAccessKey == "MY_SECRET_KEY_2024"

\* The accesskey query parameter: absent, right, wrong.
AccessKeys == {Undefined, AdminAccessKey, "guess"}

\* The Referer header, as the pieces of its text: absent, the admin page
\* address with some access key, another page.
Referers ==
  {<<>>,
   <<"https://host", "/pd-od?accesskey=", "guess">>,
   <<"https://host", "/tools">>}

\* `referer.includes(part)`
Includes(referer, part) == \E i \in DOMAIN referer : referer[i] = part

\* requireAdmin: TRUE when it calls next(), FALSE when it answers 401.
requireAdmin(adminAuthenticated, referer) ==
  IF adminAuthenticated THEN TRUE
  ELSE LET hasSecureReferer == Includes(referer, "/pd-od?accesskey=") IN
       hasSecureReferer \/ nodeEnv = "development"

\* A request to a route under /api/admin, from client c.
RequireAdminFrom(c, referer) ==
  /\ response' =
       IF requireAdmin(session[c], referer)
         THEN [op |-> "/api/admin", code |-> 200, client |-> c]
         ELSE [op |-> "/api/admin", code |-> 401, client |-> c,
               error |-> "Unauthorized - Admin session required"]
  /\ UNCHANGED <<backend, conversions, timers, now, uuids, files, disk,
                 uncaught, faulted, apiVars>>

RequireAdmin == \E c \in Clients, referer \in Referers : RequireAdminFrom(c, referer)

\* GET /pd-od?accesskey=...
GetPdOdFrom(c, providedKey) ==
  /\ IF providedKey = Undefined \/ providedKey # AdminAccessKey
       THEN /\ response' = Reply("GET /pd-od", 404, "Page Not Found")
            /\ session' = session
       ELSE /\ session' = [session EXCEPT ![c] = TRUE]
            /\ response' = [op |-> "GET /pd-od", code |-> 200, client |-> c]
  /\ UNCHANGED <<backend, conversions, timers, now, uuids, files, disk,
                 uncaught, faulted, nodeEnv, userApiKeys, apiPayments,
                 inflight, accepted>>

GetPdOd == \E c \in Clients, providedKey \in AccessKeys : GetPdOdFrom(c, providedKey)

\* A request under /admin-static: the admin page's assets.
AdminStatic ==
  \E c \in Clients, referer \in Referers :
    /\ response' =
         IF session[c] \/ Includes(referer, "/pd-od?accesskey=")
           THEN [op |-> "/admin-static", code |-> 200, client |-> c]
           ELSE [op |-> "/admin-static", code |-> 404, client |-> c,
                 error |-> "Not Found"]
    /\ UNCHANGED <<backend, conversions, timers, now, uuids, files, disk,
                   uncaught, faulted, apiVars>>

NextAdmin ==
  \/ GetPdOd
  \/ RequireAdmin
  \/ AdminStatic

SpecAdmin == InitWith({"mock"}, NodeEnvs) /\ [][NextAdmin]_vars

\* C25: a request to /api/admin is let through only if its client's
\* session was marked admin-authenticated before, and a session is marked
\* only by a request that presents the right access key; so a client that
\* never presented the key is answered Unauthorized.
C25_AdminOnlyWithSession ==
  [][/\ \A c \in Clients, referer \in Referers :
          RequireAdminFrom(c, referer) =>
            response'.code = IF session[c] THEN 200 ELSE 401
     /\ \A c \in Clients :
          (session'[c] /\ ~session[c]) => GetPdOdFrom(c, AdminAccessKey)]_vars

\* The session half of C25: a session is marked only by a request that
\* presents the right access key, and a marked session is let through.
C25_SessionOnlyByKey ==
  [][/\ \A c \in Clients, referer \in Referers :
          (RequireAdminFrom(c, referer) /\ session[c]) => response'.code = 200
     /\ \A c \in Clients :
          (session'[c] /\ ~session[c]) => GetPdOdFrom(c, AdminAccessKey)]_vars

\* C25 in production for requests without the admin page as Referer.
C25_AdminOnlyWithSessionPlainReferer ==
  [][\A c \in Clients, referer \in Referers :
       (/\ RequireAdminFrom(c, referer)
        /\ nodeEnv = "production"
        /\ ~Includes(referer, "/pd-od?accesskey=")) =>
         response'.code = IF session[c] THEN 200 ELSE 401]_vars

\* A client whose session is not marked was let through.
C25_Witness ==
  /\ response.op = "/api/admin"
  /\ response.code = 200
  /\ ~session[response.client]
  /\ nodeEnv = "production"

\* ------------------------------------------------ API keys and payments
\* The routes below are modelled with a database present (SKIP_DB_INIT
\* unset) and its statements resolving.  Ids the database or Razorpay
\* draws are row numbers; 0 stands for an absent number.
Plans == {"plan-basic"}

PlanPrice == 200

\* The plan's requestLimit, scaled down from 1000.
RequestLimit == 2

MaxKeysPerUser == 3

\* One month on the model's clock.
KeyLifetime == 1000

MaxMonths == 1

\* The most api_payments rows in a run.
MaxOrders == 2

\* The most POST /convert requests that pass validateApiKey in a run.
MaxRequests == 3

PlanIds == {Undefined, "plan-basic", "plan-x"}

NoSignature == <<>>

\* HMAC-SHA256 of `${orderId}|${paymentId}` under the secret in the source.
Hmac(orderId, paymentId) == <<"hmac", "YourTestKeySecret", orderId, paymentId>>

\* `ak_${crypto.randomBytes(24).toString('hex')}`: the n-th key drawn.
ApiKey(n) == <<"ak_", n>>

Sha256(text) == <<"sha256", text>>

KeyRow(id, userToken, planId, expiryDate) ==
  [id |-> id, userToken |-> userToken, keyHash |-> Sha256(ApiKey(id)),
   planId |-> planId, isActive |-> TRUE, requestCount |-> 0,
   expiryDate |-> expiryDate]

\* Rows of user_api_keys that exist or are about to be inserted.
KeysDue == Len(userApiKeys) + Cardinality({r \in inflight : r.kind = "generate"})

\* A request suspended between the statement that read and the one that writes.
Suspended(kind, key, requestCount, userToken, planId, expiryDate) ==
  [req |-> CHOOSE n \in 1..(MaxKeys + MaxRequests) : \A r \in inflight : r.req # n,
   kind |-> kind, key |-> key, requestCount |-> requestCount,
   userToken |-> userToken, planId |-> planId, expiryDate |-> expiryDate]

\* POST /create-order
CreateOrderFrom(userToken, planId, amount, limit) ==
  LET op == "POST /create-order"
      orderId == Len(apiPayments) + 1
  IN
  /\ IF planId = Undefined \/ amount = 0
       THEN /\ response' = Reply(op, 400, "Plan ID and amount are required")
            /\ apiPayments' = apiPayments
     ELSE IF planId \notin Plans
       THEN /\ response' = Reply(op, 404, "Plan not found")
            /\ apiPayments' = apiPayments
     ELSE IF amount # PlanPrice * 100
       THEN /\ response' = Reply(op, 400, "Invalid amount")
            /\ apiPayments' = apiPayments
     ELSE /\ Len(apiPayments) < limit
          /\ apiPayments' = Append(apiPayments,
               [id |-> orderId, userToken |-> userToken, planId |-> planId,
                orderId |-> orderId, status |-> "pending"])
          /\ response' = [op |-> op, code |-> 200, orderId |-> orderId]
  /\ UNCHANGED <<backend, conversions, timers, now, uuids, files, disk,
                 uncaught, faulted, nodeEnv, session, userApiKeys, inflight,
                 accepted>>

CreateOrder(limit) ==
  \E userToken \in UserTokens, planId \in PlanIds, amount \in {0, 1, PlanPrice * 100} :
    CreateOrderFrom(userToken, planId, amount, limit)

\* The payment record of the order, of the requesting user.
PaymentOf(orderId, userToken) ==
  SelectSeq(apiPayments, LAMBDA p : p.orderId = orderId /\ p.userToken = userToken)

\* POST /verify
VerifyFrom(userToken, orderId, paymentId, signature, planId, limit) ==
  LET op == "POST /verify"
      payment == PaymentOf(orderId, userToken)
      id == Len(userApiKeys) + 1
  IN
  /\ IF orderId = 0 \/ paymentId = 0 \/ signature = NoSignature \/ planId = Undefined
       THEN /\ response' = Reply(op, 400, "Missing payment verification data")
            /\ UNCHANGED <<apiPayments, userApiKeys>>
     ELSE IF Hmac(orderId, paymentId) # signature
       THEN /\ response' = Reply(op, 400, "Invalid payment signature")
            /\ UNCHANGED <<apiPayments, userApiKeys>>
     ELSE IF Len(payment) = 0
       THEN /\ response' = Reply(op, 404, "Payment record not found")
            /\ UNCHANGED <<apiPayments, userApiKeys>>
     ELSE IF planId \notin Plans
       THEN /\ response' = Reply(op, 404, "Plan not found")
            /\ UNCHANGED <<apiPayments, userApiKeys>>
     ELSE /\ KeysDue < limit
          /\ apiPayments' = [i \in DOMAIN apiPayments |->
               IF apiPayments[i].id = payment[1].id
                 THEN [apiPayments[i] EXCEPT !.status = "completed"]
                 ELSE apiPayments[i]]
          /\ userApiKeys' = Append(userApiKeys,
               KeyRow(id, userToken, planId, now + KeyLifetime))
          /\ response' = [op |-> op, code |-> 200, apiKey |-> ApiKey(id),
                          orderId |-> orderId, userToken |-> userToken]
  /\ UNCHANGED <<backend, conversions, timers, now, uuids, files, disk,
                 uncaught, faulted, nodeEnv, session, inflight, accepted>>

Verify(limit) ==
  \E userToken \in UserTokens, orderId \in 0..Len(apiPayments), paymentId \in {0, 1},
     planId \in PlanIds :
    \E signature \in {NoSignature, Hmac(orderId, paymentId), Hmac(0, 0)} :
      VerifyFrom(userToken, orderId, paymentId, signature, planId, limit)

\* POST /generate-api-key up to its last SELECT: the api_service_enabled
\* setting is read from a table the admin routes write.
GenerateReadFrom(userToken, enabled, limit) ==
  LET op == "POST /generate-api-key"
      activeKey == SelectSeq(userApiKeys,
                     LAMBDA k : k.userToken = userToken /\ k.isActive)
      existingKeys == SelectSeq(userApiKeys, LAMBDA k : k.userToken = userToken)
  IN
  /\ IF ~enabled
       THEN /\ response' = Reply(op, 403, "API service is currently disabled by admin")
            /\ inflight' = inflight
     ELSE IF Len(activeKey) = 0
       THEN /\ response' = Reply(op, 400, "Active subscription required to generate API keys")
            /\ inflight' = inflight
     ELSE IF Len(existingKeys) >= MaxKeysPerUser
       THEN /\ response' = Reply(op, 400, "Maximum number of API keys reached (3)")
            /\ inflight' = inflight
     ELSE /\ KeysDue < limit
          \* .limit(1) without ORDER BY: any active key of the user
          /\ \E i \in DOMAIN activeKey :
               inflight' = inflight \cup
                 {Suspended("generate", 0, 0, userToken, activeKey[i].planId,
                            activeKey[i].expiryDate)}
          /\ response' = NoResponse
  /\ UNCHANGED <<backend, conversions, timers, now, uuids, files, disk,
                 uncaught, faulted, nodeEnv, session, userApiKeys, apiPayments,
                 accepted>>

GenerateRead(limit) ==
  \E userToken \in UserTokens, enabled \in BOOLEAN :
    GenerateReadFrom(userToken, enabled, limit)

\* POST /generate-api-key from its INSERT on.
GenerateInsert ==
  \E r \in inflight :
    LET id == Len(userApiKeys) + 1 IN
    /\ r.kind = "generate"
    /\ userApiKeys' = Append(userApiKeys,
         KeyRow(id, r.userToken, r.planId, r.expiryDate))
    /\ inflight' = inflight \ {r}
    /\ response' = [op |-> "POST /generate-api-key", code |-> 200, id |-> id,
                    apiKey |-> ApiKey(id), userToken |-> r.userToken]
    /\ UNCHANGED <<backend, conversions, timers, now, uuids, files, disk,
                   uncaught, faulted, nodeEnv, session, apiPayments, accepted>>

\* UPDATE user_api_keys SET is_active = false WHERE id = keyId AND user_token = userToken
revoke(rows, keyId, userToken) ==
  [i \in DOMAIN rows |->
     IF rows[i].id = keyId /\ rows[i].userToken = userToken
       THEN [rows[i] EXCEPT !.isActive = FALSE]
       ELSE rows[i]]

\* DELETE /api-keys/:keyId
RevokeFrom(userToken, keyId) ==
  /\ userApiKeys' = revoke(userApiKeys, keyId, userToken)
  /\ response' = [op |-> "DELETE /api-keys/:keyId", code |-> 200,
                  keyId |-> keyId, userToken |-> userToken]
  /\ UNCHANGED <<backend, conversions, timers, now, uuids, files, disk,
                 uncaught, faulted, nodeEnv, session, apiPayments, inflight,
                 accepted>>

Revoke ==
  \E userToken \in UserTokens, keyId \in 0..Len(userApiKeys) :
    RevokeFrom(userToken, keyId)

\* The Authorization header: absent, another scheme, a bearer token that is
\* no API key, or a bearer API key: one that was drawn, or ak_0, which never was.
NoHeader == <<>>

AuthHeaders ==
  {NoHeader, <<"Basic", <<"ak_", 0>>>>, <<"Bearer", <<"sk_", 0>>>>}
    \cup {<<"Bearer", ApiKey(n)>> : n \in 0..Len(userApiKeys)}

\* Mutant: validateApiKey without the isActive check.
validateApiKeyIgnoringActive(authHeader) ==
  IF authHeader = NoHeader \/ authHeader[1] # "Bearer"
    THEN [code |-> 401, error |-> "Missing or invalid authorization header", key |-> 0]
  ELSE IF authHeader[2][1] # "ak_"
    THEN [code |-> 401, error |-> "Invalid API key format", key |-> 0]
  ELSE LET keyResult == SelectSeq(userApiKeys,
                          LAMBDA k : k.keyHash = Sha256(authHeader[2]))
       IN
       IF Len(keyResult) = 0
         THEN [code |-> 401, error |-> "Invalid API key", key |-> 0]
       ELSE IF now > keyResult[1].expiryDate
         THEN [code |-> 401, error |-> "API key has expired", key |-> 0]
       ELSE IF keyResult[1].requestCount >= RequestLimit
         THEN [code |-> 429, error |-> "Monthly request limit exceeded", key |-> 0]
       ELSE [code |-> 0, error |-> Undefined, key |-> keyResult[1].id]

\* validateApiKey: the answer it sends, or code 0 and the key's id when it
\* calls next().
validateApiKey(authHeader) ==
  IF authHeader = NoHeader \/ authHeader[1] # "Bearer"
    THEN [code |-> 401, error |-> "Missing or invalid authorization header", key |-> 0]
  ELSE IF authHeader[2][1] # "ak_"
    THEN [code |-> 401, error |-> "Invalid API key format", key |-> 0]
  ELSE LET keyResult == SelectSeq(userApiKeys,
                          LAMBDA k : k.keyHash = Sha256(authHeader[2]))
       IN
       IF Len(keyResult) = 0
         THEN [code |-> 401, error |-> "Invalid API key", key |-> 0]
       ELSE IF ~keyResult[1].isActive
         THEN [code |-> 401, error |-> "API key is inactive", key |-> 0]
       ELSE IF now > keyResult[1].expiryDate
         THEN [code |-> 401, error |-> "API key has expired", key |-> 0]
       ELSE IF keyResult[1].requestCount >= RequestLimit
         THEN [code |-> 429, error |-> "Monthly request limit exceeded", key |-> 0]
       ELSE [code |-> 0, error |-> Undefined, key |-> keyResult[1].id]

\* GET /key-info
KeyInfoFrom(authHeader) ==
  LET checked == validateApiKey(authHeader) IN
  /\ response' =
       IF checked.code # 0 THEN Reply("GET /key-info", checked.code, checked.error)
       ELSE [op |-> "GET /key-info", code |-> 200, key |-> checked.key,
             requestCount |-> userApiKeys[checked.key].requestCount]
  /\ UNCHANGED <<backend, conversions, timers, now, uuids, files, disk,
                 uncaught, faulted, apiVars>>

KeyInfo == \E authHeader \in AuthHeaders : KeyInfoFrom(authHeader)

RECURSIVE SumOf(_, _)
SumOf(f, S) ==
  IF S = {} THEN 0
  ELSE LET k == CHOOSE k \in S : TRUE IN f[k] + SumOf(f, S \ {k})

\* POST /convert up to the SELECT of validateApiKey: req.apiKey holds the
\* requestCount that was read.
ConvertReadFrom(authHeader, limit) ==
  LET checked == validateApiKey(authHeader) IN
  /\ IF checked.code # 0
       THEN /\ response' = Reply("POST /convert", checked.code, checked.error)
            /\ inflight' = inflight
       ELSE /\ Cardinality({r \in inflight : r.kind = "convert"})
                 + SumOf(accepted, KeyIds) < limit
            /\ inflight' = inflight \cup
                 {Suspended("convert", checked.key,
                            userApiKeys[checked.key].requestCount,
                            userApiKeys[checked.key].userToken,
                            userApiKeys[checked.key].planId,
                            userApiKeys[checked.key].expiryDate)}
            /\ response' = NoResponse
  /\ UNCHANGED <<backend, conversions, timers, now, uuids, files, disk,
                 uncaught, faulted, nodeEnv, session, userApiKeys, apiPayments,
                 accepted>>

ConvertRead(limit) == \E authHeader \in AuthHeaders : ConvertReadFrom(authHeader, limit)

\* UPDATE user_api_keys SET request_count = <value read> + 1 WHERE id = keyId
requestCountUpdate(rows, keyId, read) ==
  [i \in DOMAIN rows |->
     IF rows[i].id = keyId THEN [rows[i] EXCEPT !.requestCount = read + 1]
     ELSE rows[i]]

\* POST /convert from its UPDATE on.
ConvertUpdate ==
  \E r \in inflight :
    /\ r.kind = "convert"
    /\ userApiKeys' = requestCountUpdate(userApiKeys, r.key, r.requestCount)
    /\ accepted' = [accepted EXCEPT ![r.key] = @ + 1]
    /\ inflight' = inflight \ {r}
    /\ response' = [op |-> "POST /convert", code |-> 200, key |-> r.key,
                    remainingRequests |-> RequestLimit - r.requestCount - 1]
    /\ UNCHANGED <<backend, conversions, timers, now, uuids, files, disk,
                   uncaught, faulted, nodeEnv, session, apiPayments>>

\* A month and more goes by.
MonthPasses ==
  /\ now < MaxMonths * (KeyLifetime + 1)
  /\ now' = now + KeyLifetime + 1
  /\ response' = NoResponse
  /\ UNCHANGED <<backend, conversions, timers, uuids, files, disk, uncaught,
                 faulted, apiVars>>

\* ------------------------------------------------------------ rate limit
\* One paid key and concurrent requests that present it.
ApiKeys == 1

NextApi ==
  \/ CreateOrder(1)
  \/ Verify(ApiKeys)
  \/ ConvertRead(MaxRequests)
  \/ ConvertUpdate
  \/ KeyInfo

SpecApi == InitWith({"mock"}, {"production"}) /\ [][NextApi]_vars

\* C27: however requests with one API key interleave, the accepted
\* POST /convert requests never exceed the plan's request limit, and the
\* stored requestCount is the number accepted.
C27_RateLimitHolds ==
  \A k \in DOMAIN userApiKeys :
    /\ accepted[k] <= RequestLimit
    /\ userApiKeys[k].requestCount = accepted[k]

\* The stored count never exceeds the limit, whatever was accepted.
C27_StoredCountWithinLimit ==
  \A k \in DOMAIN userApiKeys : userApiKeys[k].requestCount <= RequestLimit

\* More requests were accepted than the limit allows, with fewer counted.
C27_Witness ==
  \E k \in DOMAIN userApiKeys :
    /\ accepted[k] > RequestLimit
    /\ userApiKeys[k].requestCount < accepted[k]

\* ------------------------------------------------------ keys and orders
\* Payments, the keys they yield, and keys generated beside them.
NextKeys ==
  \/ CreateOrder(MaxOrders)
  \/ Verify(MaxKeys)
  \/ GenerateRead(MaxKeys)
  \/ GenerateInsert

SpecKeys == InitWith({"mock"}, {"production"}) /\ [][NextKeys]_vars

\* The inputs of POST /verify.
VerifyInputs ==
  [userToken : UserTokens, orderId : 0..MaxOrders, paymentId : {0, 1},
   planId : PlanIds,
   signature : {NoSignature} \cup {Hmac(o, p) : o \in 0..MaxOrders, p \in {0, 1}}]

\* C28: /verify creates a key only for a valid signature and an existing
\* payment record of the requesting user, and only while the order is not
\* yet completed, so each order yields at most one key.
C28_OneKeyPerOrder ==
  [][(Len(userApiKeys') > Len(userApiKeys) /\ response'.op = "POST /verify") =>
       \A in \in VerifyInputs :
         VerifyFrom(in.userToken, in.orderId, in.paymentId, in.signature,
                    in.planId, MaxKeys) =>
           /\ in.signature = Hmac(in.orderId, in.paymentId)
           /\ Len(PaymentOf(in.orderId, in.userToken)) = 1
           /\ PaymentOf(in.orderId, in.userToken)[1].status = "pending"]_vars

\* C28 without the repetition: a key only for a valid signature and an
\* existing payment record of the requesting user.
C28_KeyOnlyForSignedOwnPayment ==
  [][(Len(userApiKeys') > Len(userApiKeys) /\ response'.op = "POST /verify") =>
       \A in \in VerifyInputs :
         VerifyFrom(in.userToken, in.orderId, in.paymentId, in.signature,
                    in.planId, MaxKeys) =>
           /\ in.signature = Hmac(in.orderId, in.paymentId)
           /\ Len(PaymentOf(in.orderId, in.userToken)) = 1]_vars

\* One order only, completed, and two keys.
C28_Witness ==
  /\ Len(apiPayments) = 1
  /\ apiPayments[1].status = "completed"
  /\ Len(userApiKeys) = 2
  /\ response.op = "POST /verify"
  /\ response.code = 200

\* The keys user_api_keys holds for a user, revoked ones included.
KeysOf(userToken) == {i \in DOMAIN userApiKeys : userApiKeys[i].userToken = userToken}

\* C29: a user never holds more than three API keys, whatever payment
\* verifications and generate-api-key requests were made and however they
\* interleaved.
C29_AtMostThreeKeys ==
  \A userToken \in UserTokens : Cardinality(KeysOf(userToken)) <= MaxKeysPerUser

\* The check of C29 where it exists: generate-api-key refuses a user who
\* is seen to hold three keys.
C29_GenerateRefusesAtLimit ==
  [][\A userToken \in UserTokens :
       (/\ GenerateReadFrom(userToken, TRUE, MaxKeys)
        /\ Cardinality(KeysOf(userToken)) >= MaxKeysPerUser) =>
         /\ response'.code = 400
         /\ inflight' = inflight]_vars

\* A user holds four keys.
C29_Witness ==
  \E userToken \in UserTokens : Cardinality(KeysOf(userToken)) > MaxKeysPerUser

\* ------------------------------------------------------------ revocation
\* Keys of two users, revocation, and requests that present a key, over a
\* month and more.
RevokeKeys == 2

RevokeRequests == 1

NextRevoke ==
  \/ CreateOrder(MaxOrders)
  \/ Verify(RevokeKeys)
  \/ GenerateRead(RevokeKeys)
  \/ GenerateInsert
  \/ Revoke
  \/ KeyInfo
  \/ ConvertRead(RevokeRequests)
  \/ ConvertUpdate
  \/ MonthPasses

SpecRevoke == InitWith({"mock"}, {"production"}) /\ [][NextRevoke]_vars

\* The row the bearer key of a header belongs to, if any.
RowsOf(authHeader) ==
  {i \in DOMAIN userApiKeys :
     /\ authHeader # NoHeader
     /\ authHeader[1] = "Bearer"
     /\ userApiKeys[i].keyHash = Sha256(authHeader[2])}

\* C30: a revocation deactivates the named key only if the requesting user
\* owns it and changes nothing else; a request that presents a key
\* which is inactive is rejected; and no step makes an inactive key active.
C30_RevokedStaysRejected ==
  [][/\ response'.op = "DELETE /api-keys/:keyId" =>
          \A userToken \in UserTokens, keyId \in 0..Len(userApiKeys) :
            RevokeFrom(userToken, keyId) =>
              /\ Len(userApiKeys') = Len(userApiKeys)
              /\ \A i \in DOMAIN userApiKeys :
                   IF userApiKeys[i].id = keyId /\ userApiKeys[i].userToken = userToken
                     THEN userApiKeys'[i] = [userApiKeys[i] EXCEPT !.isActive = FALSE]
                     ELSE userApiKeys'[i] = userApiKeys[i]
     /\ (response'.op \in {"GET /key-info", "POST /convert"} \/ inflight' # inflight) =>
          \A authHeader \in AuthHeaders :
            (/\ \E i \in RowsOf(authHeader) : ~userApiKeys[i].isActive
             /\ KeyInfoFrom(authHeader) \/ ConvertReadFrom(authHeader, RevokeRequests)) =>
              /\ response'.code = 401
              /\ inflight' = inflight
     /\ \A i \in DOMAIN userApiKeys :
          ~userApiKeys[i].isActive =>
            /\ i \in DOMAIN userApiKeys'
            /\ ~userApiKeys'[i].isActive]_vars

\* A request with a revoked key was just rejected while the key of
\* another user is still active.
C30_Witness ==
  /\ response.op \in {"GET /key-info", "POST /convert"}
  /\ response.code = 401
  /\ response.error = "API key is inactive"
  /\ \E i, j \in DOMAIN userApiKeys :
       /\ ~userApiKeys[i].isActive
       /\ userApiKeys[j].isActive
       /\ userApiKeys[i].userToken # userApiKeys[j].userToken

====
